---------------------------- MODULE Spec2Model ----------------------------
(***************************************************************************)
(* The notebooks of cml-2019 as straight-line programs run by a Jupyter    *)
(* kernel ("Run All"): the statements of the code cells run in source      *)
(* order, an uncaught exception ends the run.                              *)
(*                                                                         *)
(*   scaling  src/unnamed/part_000 (02b-Solution-StandardScaling)          *)
(*   topics   src/05-Recommender-MatrixFac.ipynb, lines 1-224              *)
(*   kmeans   src/05-Recommender-MatrixFac.ipynb, lines 226-456            *)
(*                                                                         *)
(* A statement is named by the source line it starts on.  Numbers the      *)
(* library computes in floating point are kept exact: a mean is a sum over *)
(* a count, a standardised value is a numerator over the square root of an *)
(* integer.  What a numerical routine returns that cannot be kept exact    *)
(* (regression coefficients, tf-idf weights, an RMSE) is kept as the term  *)
(* that determines it: the routine and the arguments it was applied to.    *)
(***************************************************************************)
EXTENDS Integers, Sequences, FiniteSets, TLC

VARIABLES
    nb,                  \* the notebook being run
    pc,                  \* position in Program(nb) of the next statement
    err,                 \* the uncaught exception that ended the run, or NoError
    ran,                 \* the statements completed so far, in order
    out,                 \* the lines printed or displayed so far
    files,               \* what the data sources hold (CSV files, corpus server)
    bound,               \* the names the statements run so far have bound
    df, X, y,            \* scaling, kmeans: the table, predictors, target
    X_train, X_test, y_train, y_test,
    lr, linear, y_pred,
    ss, X_train_ss,
    dataset, data_samples, tfidf_vectorizer, tfidf, nmf, tfidf_feature_names,
    top_n,               \* topics: the n_top_words argument of print_top_words
    df2, df3, cluster_labels, kdf,
    iris, target_names, pca, X_r, colors, lw,
    axes                 \* kmeans: the artists of matplotlib's current axes

kernelVars  == <<nb, pc, err, ran, out, files, bound>>
tableVars   == <<df, X, y>>
scalingVars == <<X_train, X_test, y_train, y_test, lr, linear, y_pred, ss, X_train_ss>>
topicVars   == <<dataset, data_samples, tfidf_vectorizer, tfidf, nmf,
                 tfidf_feature_names, top_n>>
pcaVars     == <<iris, target_names, pca, X_r, colors, lw, axes>>
kmeansVars  == <<df2, df3, cluster_labels, kdf, pcaVars>>
vars == <<kernelVars, tableVars, scalingVars, topicVars, kmeansVars>>

-----------------------------------------------------------------------------
(* Bounds of the model. *)

\* Most data rows of data/powerplant.csv.
MaxRows == 3

-----------------------------------------------------------------------------
(* Generic helpers. *)

NoError == [type |-> "none", line |-> 0]

\* What a variable holds while its name is not bound.  A bound name may hold
\* the same value (an empty list, a table without rows): whether a name is
\* bound is what `bound` tells, never the value.
NoValue == <<>>

Range(s) == {s[i] : i \in DOMAIN s}

RECURSIVE SumSeq(_)
SumSeq(s) == IF s = <<>> THEN 0 ELSE Head(s) + SumSeq(Tail(s))

Min(a, b) == IF a <= b THEN a ELSE b

\* The permutations of 1..n, as sequences.
Perms(n) == {p \in [1..n -> 1..n] : \A i, j \in 1..n : p[i] = p[j] => i = j}

\* seq[lo..hi] (1-based, inclusive), empty when lo > hi.
SubSeqSafe(s, lo, hi) == IF lo > hi THEN <<>> ELSE SubSeq(s, lo, hi)

-----------------------------------------------------------------------------
(* The kernel: statements in source order, an exception ends the run. *)

ScalingProgram == <<33, 34, 35, 36, 37, 39, 40, 41, 42, 43, 44, 45, 46, 47,
                    67, 69, 71, 73, 75, 76, 85, 86, 104>>

TopicsProgram == <<68, 69, 71, 72, 73, 75, 76, 77, 78, 85, 86, 87, 89,
                   108, 111, 112, 115, 116, 117, 135, 136, 137, 138,
                   147, 148, 157, 166, 175, 182, 183>>

KMeansProgram == <<267, 268, 269, 271, 272, 273, 275, 276, 285, 287, 289, 298, 299,
                   338, 339, 340, 342, 343, 344, 345, 347, 348, 351, 361,
                   370, 371, 373, 376, 377>>

\* The names statement l of notebook n binds when it completes.
Binds(n, l) ==
    IF n = "scaling" THEN
    CASE l = 33 -> {"pd"}
      [] l = 34 -> {"train_test_split"}
      [] l = 35 -> {"linear_model"}
      [] l = 36 -> {"mean_squared_error"}
      [] l = 37 -> {"np"}
      [] l = 39 -> {"df"}
      [] l = 40 -> {"X"}
      [] l = 41 -> {"y"}
      [] l \in {42, 69} -> {"X_train", "X_test", "y_train", "y_test"}
      [] l \in {43, 75} -> {"lr"}
      [] l \in {44, 76} -> {"linear"}
      [] l \in {45, 85} -> {"y_pred"}
      [] l = 67 -> {"StandardScaler"}
      [] l = 71 -> {"ss"}
      [] l = 73 -> {"X_train_ss"}
      [] OTHER -> {}
    ELSE IF n = "topics" THEN
    CASE l = 68 -> {"print_function"}
      [] l = 69 -> {"time"}
      [] l = 71 -> {"TfidfVectorizer", "CountVectorizer"}
      [] l = 72 -> {"NMF"}
      [] l = 73 -> {"fetch_20newsgroups"}
      [] l = 75 -> {"n_samples"}
      [] l = 76 -> {"n_features"}
      [] l = 77 -> {"n_components"}
      [] l = 78 -> {"n_top_words"}
      [] l \in {86, 115, 136} -> {"t0"}
      [] l = 87 -> {"dataset"}
      [] l = 108 -> {"data_samples"}
      [] l = 112 -> {"tfidf_vectorizer"}
      [] l = 116 -> {"tfidf"}
      [] l = 137 -> {"nmf"}
      [] l = 147 -> {"tfidf_feature_names"}
      [] l = 175 -> {"print_top_words"}
      [] OTHER -> {}
    ELSE IF n = "kmeans" THEN
    CASE l = 267 -> {"pd"}
      [] l = 268 -> {"np"}
      [] l = 269 -> {"train_test_split"}
      [] l = 271 -> {"df"}
      [] l = 272 -> {"df2"}
      [] l = 273 -> {"df3"}
      [] l \in {275, 344} -> {"y"}
      [] l \in {276, 343} -> {"X"}
      [] l = 285 -> {"KMeans"}
      [] l = 287 -> {"cluster_labels"}
      [] l = 298 -> {"kdf"}
      [] l = 338 -> {"plt"}
      [] l = 339 -> {"datasets"}
      [] l = 340 -> {"PCA"}
      [] l = 342 -> {"iris"}
      [] l = 345 -> {"target_names"}
      [] l = 347 -> {"pca"}
      [] l = 348 -> {"X_r"}
      [] l = 370 -> {"colors"}
      [] l = 371 -> {"lw"}
      [] l = 373 -> {"color", "i", "target_name"}
      [] OTHER -> {}
    ELSE {}

Program(n) ==
    IF n = "scaling" THEN ScalingProgram
    ELSE IF n = "topics" THEN TopicsProgram
    ELSE IF n = "print_top_words" THEN <<176>>
    ELSE IF n = "kmeans" THEN KMeansProgram
    ELSE <<>>

\* Statement l is the next one to run.
At(n, l) ==
    /\ nb = n
    /\ err = NoError
    /\ pc \in DOMAIN Program(n)
    /\ Program(n)[pc] = l

\* A kernel that stays on the statement it has run.
NextPcStays(p) == p

\* The kernel moves on to the statement that follows.
NextPc(p) == p + 1

\* Statement l completed.
Completes(l) ==
    /\ pc' = NextPc(pc)
    /\ ran' = Append(ran, l)
    /\ bound' = bound \cup Binds(nb, l)
    /\ err' = err
    /\ UNCHANGED <<nb, files>>

\* Statement l raised exception e and the run went on, as under a bare
\* try/except around the statement.
RaisesAndContinues(l, e) ==
    /\ pc' = pc + 1
    /\ ran' = Append(ran, l)
    /\ err' = err
    /\ UNCHANGED <<nb, out, files, bound>>

\* Statement l raised exception e: nothing catches it, the run ends.
Raises(l, e) ==
    /\ err' = [type |-> e, line |-> l]
    /\ UNCHANGED <<nb, pc, ran, out, files, bound>>

Completed(l) == \E i \in DOMAIN ran : ran[i] = l

\* Statement l binds its names and changes nothing else that is kept: an
\* import, a constant, a clock read.
BindsOnlyAt(n, l) ==
    /\ At(n, l)
    /\ Completes(l)
    /\ UNCHANGED <<out, tableVars, scalingVars, topicVars, kmeansVars>>

-----------------------------------------------------------------------------
(* pandas: a DataFrame is its rows, each with its index label; a Series is *)
(* its values, each with its index label.                                  *)

\* pd.read_csv of a file holding `rows`: a RangeIndex 0..n-1.
ReadCsv(rows) == [i \in DOMAIN rows |-> [index |-> i - 1, row |-> rows[i]]]

\* df.iloc[:, :k]
ILocColsUpTo(d, k) ==
    [i \in DOMAIN d |-> [index |-> d[i].index,
                         row |-> SubSeqSafe(d[i].row, 1, Min(k, Len(d[i].row)))]]

\* df.iloc[:, k] (k counts from 0)
ILocCol(d, k) == [i \in DOMAIN d |-> [index |-> d[i].index, value |-> d[i].row[k + 1]]]

\* frame.iloc[idx] for a list of positions.
Take(d, idx) == [i \in DOMAIN idx |-> d[idx[i]]]

\* The values of a DataFrame as a matrix, of a Series as a vector.
Values(d) == [i \in DOMAIN d |-> d[i].row]
SeriesValues(s) == [i \in DOMAIN s |-> s[i].value]

-----------------------------------------------------------------------------
(* sklearn.model_selection.train_test_split(X, y, test_size=0.3)           *)

\* n_test = ceil(0.3 * n_samples)
NTest(n) == (3 * n + 9) \div 10

\* ValueError: no samples, or the resulting train set would be empty.
SplitFails(n) == n = 0 \/ n - NTest(n) = 0

\* The shuffle is a permutation drawn from an unseeded generator; the test
\* fold is its first n_test positions, the train fold the rest.
TrainTestSplit(Xd, ys, perm) ==
    LET n == Len(Xd)
        test == SubSeqSafe(perm, 1, NTest(n))
        train == SubSeqSafe(perm, NTest(n) + 1, n)
    IN [X_train |-> Take(Xd, train), X_test |-> Take(Xd, test),
        y_train |-> Take(ys, train), y_test |-> Take(ys, test)]

-----------------------------------------------------------------------------
(* sklearn.preprocessing.StandardScaler                                    *)

\* Column j of a matrix.
Column(m, j) == [i \in DOMAIN m |-> m[i][j]]
NCols(m) == IF m = <<>> THEN 0 ELSE Len(m[1])

ColSum(m, j) == SumSeq(Column(m, j))

\* n^2 times the (population) variance of column j.
VarNum(m, j) ==
    Len(m) * SumSeq([i \in DOMAIN m |-> m[i][j] * m[i][j]]) - ColSum(m, j) * ColSum(m, j)

StandardScaler == [fitted |-> FALSE]

\* ss.fit(m): mean_[j] = mean_num[j] / n, var_[j] = var_num[j] / n^2 and
\* scale_[j]^2 = scale2_num[j] / n^2, where a zero variance gives scale 1.
ScalerFit(m) ==
    [fitted |-> TRUE,
     n_samples_seen_ |-> Len(m),
     mean_num |-> [j \in 1..NCols(m) |-> ColSum(m, j)],
     var_num |-> [j \in 1..NCols(m) |-> VarNum(m, j)],
     scale2_num |-> [j \in 1..NCols(m) |->
                        IF VarNum(m, j) = 0 THEN Len(m) * Len(m) ELSE VarNum(m, j)]]

\* A value divided by scale_ without the mean taken off: x / scale_.
ScaledValueUncentred(s, j, x) ==
    [num |-> s.n_samples_seen_ * x, den2 |-> s.scale2_num[j]]

\* A standardised value (x - mean_) / scale_ = num / sqrt(den2).
ScaledValue(s, j, x) ==
    [num |-> s.n_samples_seen_ * x - s.mean_num[j], den2 |-> s.scale2_num[j]]

\* The array ss.transform(m) returns.
ScalerApply(s, m) ==
    [i \in DOMAIN m |-> [j \in DOMAIN m[i] |-> ScaledValue(s, j, m[i][j])]]

\* A transform that fits the scaler to its argument first.
TransformCallRefits(s, m) ==
    [self |-> ScalerFit(m), result |-> ScalerApply(ScalerFit(m), m)]

\* ss.transform(m): the scaler is read, not written.
TransformCall(s, m) == [self |-> s, result |-> ScalerApply(s, m)]

-----------------------------------------------------------------------------
(* sklearn.linear_model.LinearRegression and sklearn.metrics, as terms.    *)

LinearRegression == [fitted |-> FALSE]

\* lr.fit(m, t): coef_ and intercept_ are the least-squares solution for
\* (m, t); the estimator is identified by what it was fitted on.
RegressionFit(m, t) == [fitted |-> TRUE, fit_X |-> m, fit_y |-> t]

\* linear.predict(m)
Predict(model, m) == [model |-> model, X |-> m]

-----------------------------------------------------------------------------
(* The scaling notebook, src/unnamed/part_000.                             *)

\* Readings a row of data/powerplant.csv is built from.
Readings == {0, 1, 3}

\* The states of data/powerplant.csv.  A data row holds four predictors (the
\* third one the same in every row) and the target.
PowerPlantFiles ==
    {[state |-> "missing", rows |-> <<>>], [state |-> "malformed", rows |-> <<>>]}
    \cup {[state |-> "ok", rows |-> [i \in DOMAIN r |->
                                     <<r[i], 2 * r[i], 50, r[i] + 1, 400 - r[i]>>]] :
             r \in UNION {[1..n -> Readings] : n \in 0..MaxRows}}

\* What pd.read_csv raises on a file in state st.
ReadCsvError(st) ==
    IF st = "missing" THEN "FileNotFoundError" ELSE "ParserError"

\* A print statement of the notebook at line l.
PrintsAt(n, l, line) ==
    /\ At(n, l)
    /\ out' = Append(out, line)
    /\ Completes(l)
    /\ UNCHANGED <<tableVars, scalingVars, topicVars, kmeansVars>>

\* lines 33-37 and 67: the imports
S33_Imports == \E l \in {33, 34, 35, 36, 37, 67} : BindsOnlyAt("scaling", l)

\* line 39: df = pd.read_csv('data/powerplant.csv')
S39_ReadCsv ==
    /\ At("scaling", 39)
    /\ \/ /\ files.state = "ok"
          /\ df' = ReadCsv(files.rows)
          /\ Completes(39)
          /\ UNCHANGED out
       \/ /\ files.state # "ok"
          /\ Raises(39, ReadCsvError(files.state))
          /\ UNCHANGED df
    /\ UNCHANGED <<X, y, scalingVars, topicVars, kmeansVars>>

\* line 40: X = df.iloc[:, :4]
S40_SelectX ==
    /\ At("scaling", 40)
    /\ X' = ILocColsUpTo(df, 4)
    /\ Completes(40)
    /\ UNCHANGED <<out, df, y, scalingVars, topicVars, kmeansVars>>

\* line 41: y = df.iloc[:, 4]
S41_SelectY ==
    /\ At("scaling", 41)
    /\ y' = ILocCol(df, 4)
    /\ Completes(41)
    /\ UNCHANGED <<out, df, X, scalingVars, topicVars, kmeansVars>>

\* lines 42 and 69: X_train, X_test, y_train, y_test = train_test_split(X, y, test_size=0.3)
SplitAt(l) ==
    /\ At("scaling", l)
    /\ \/ /\ ~SplitFails(Len(X))
          /\ \E perm \in Perms(Len(X)) :
                LET r == TrainTestSplit(X, y, perm)
                IN /\ X_train' = r.X_train
                   /\ X_test' = r.X_test
                   /\ y_train' = r.y_train
                   /\ y_test' = r.y_test
          /\ Completes(l)
          /\ UNCHANGED out
       \/ /\ SplitFails(Len(X))
          /\ Raises(l, "ValueError")
          /\ UNCHANGED <<X_train, X_test, y_train, y_test>>
    /\ UNCHANGED <<tableVars, lr, linear, y_pred, ss, X_train_ss, topicVars, kmeansVars>>

S42_Split == SplitAt(42)

\* lines 43 and 75: lr = linear_model.LinearRegression()
NewRegressionAt(l) ==
    /\ At("scaling", l)
    /\ lr' = LinearRegression
    /\ Completes(l)
    /\ UNCHANGED <<out, tableVars, X_train, X_test, y_train, y_test, linear, y_pred,
                   ss, X_train_ss, topicVars, kmeansVars>>

S43_NewRegression == NewRegressionAt(43)

\* line 44: linear = lr.fit(X_train, y_train); fit returns the estimator itself
S44_Fit ==
    /\ At("scaling", 44)
    /\ lr' = RegressionFit(Values(X_train), SeriesValues(y_train))
    /\ linear' = lr'
    /\ Completes(44)
    /\ UNCHANGED <<out, tableVars, X_train, X_test, y_train, y_test, y_pred,
                   ss, X_train_ss, topicVars, kmeansVars>>

\* line 45: y_pred = linear.predict(X_test)
S45_Predict ==
    /\ At("scaling", 45)
    /\ y_pred' = Predict(linear, Values(X_test))
    /\ Completes(45)
    /\ UNCHANGED <<out, tableVars, X_train, X_test, y_train, y_test, lr, linear,
                   ss, X_train_ss, topicVars, kmeansVars>>

\* lines 46 and 86: print("RMSE %f" % np.sqrt(mean_squared_error(y_test, y_pred)))
PrintRmseAt(l) ==
    /\ At("scaling", l)
    /\ out' = Append(out, [text |-> "RMSE", y_true |-> y_test, y_pred |-> y_pred])
    /\ Completes(l)
    /\ UNCHANGED <<tableVars, scalingVars, topicVars, kmeansVars>>

S46_PrintRmse == PrintRmseAt(46)

\* lines 47 and 104: linear.coef_ is printed, or displayed as the cell's value
ShowCoefAt(l) ==
    /\ At("scaling", l)
    /\ out' = Append(out, [text |-> "coef_", of |-> linear])
    /\ Completes(l)
    /\ UNCHANGED <<tableVars, scalingVars, topicVars, kmeansVars>>

S47_PrintCoef == ShowCoefAt(47)

S69_SplitAgain == SplitAt(69)

\* line 71: ss = StandardScaler()
S71_NewScaler ==
    /\ At("scaling", 71)
    /\ ss' = StandardScaler
    /\ Completes(71)
    /\ UNCHANGED <<out, tableVars, X_train, X_test, y_train, y_test, lr, linear, y_pred,
                   X_train_ss, topicVars, kmeansVars>>

\* line 73: X_train_ss = ss.fit_transform(X_train)
S73_FitTransform ==
    /\ At("scaling", 73)
    /\ LET r == TransformCall(ScalerFit(Values(X_train)), Values(X_train))
       IN /\ ss' = r.self
          /\ X_train_ss' = r.result
    /\ Completes(73)
    /\ UNCHANGED <<out, tableVars, X_train, X_test, y_train, y_test, lr, linear, y_pred,
                   topicVars, kmeansVars>>

S75_NewRegression == NewRegressionAt(75)

\* line 76: linear = lr.fit(X_train_ss, y_train)
S76_FitScaled ==
    /\ At("scaling", 76)
    /\ lr' = RegressionFit(X_train_ss, SeriesValues(y_train))
    /\ linear' = lr'
    /\ Completes(76)
    /\ UNCHANGED <<out, tableVars, X_train, X_test, y_train, y_test, y_pred,
                   ss, X_train_ss, topicVars, kmeansVars>>

\* line 85: y_pred = linear.predict(ss.transform(X_test))
S85_PredictScaled ==
    /\ At("scaling", 85)
    /\ LET r == TransformCall(ss, Values(X_test))
       IN /\ ss' = r.self
          /\ y_pred' = Predict(linear, r.result)
    /\ Completes(85)
    /\ UNCHANGED <<out, tableVars, X_train, X_test, y_train, y_test, lr, linear,
                   X_train_ss, topicVars, kmeansVars>>

S86_PrintRmse == PrintRmseAt(86)

S104_ShowCoef == ShowCoefAt(104)

NextScaling ==
    \/ S33_Imports
    \/ S39_ReadCsv \/ S40_SelectX \/ S41_SelectY \/ S42_Split
    \/ S43_NewRegression \/ S44_Fit \/ S45_Predict \/ S46_PrintRmse \/ S47_PrintCoef
    \/ S69_SplitAgain \/ S71_NewScaler \/ S73_FitTransform \/ S75_NewRegression
    \/ S76_FitScaled \/ S85_PredictScaled \/ S86_PrintRmse \/ S104_ShowCoef

-----------------------------------------------------------------------------
(* The topic-modelling notebook, src/05-Recommender-MatrixFac.ipynb,       *)
(* lines 1-224.  The clock reads (t0 = time(), lines 86, 115, 136) bind   *)
(* t0 and nothing else; the elapsed time a "done" line prints is left out  *)
(* of the line.                                                            *)

n_samples == 2000
n_features == 1000
n_components == 10
n_top_words == 20

\* Most documents of a short corpus.
MaxDocs == 20

\* The j-th of the numbered words of a long corpus.
Term(j) ==
    (IF j < 10 THEN "t000" ELSE IF j < 100 THEN "t00" ELSE IF j < 1000 THEN "t0" ELSE "t")
    \o ToString(j)

\* The words of the corpora, in alphabetical order; a document is the
\* sequence of its tokens.
Lexicon == <<"able", "god">> \o [j \in 1..(n_features + 1) |-> Term(j)] \o <<"the">>

\* A short corpus of n documents: every one holds "the", the first k1 hold
\* "able", the last k2 hold "god".
Corpus(n, k1, k2) ==
    [i \in 1..n |->
        (IF i <= k1 THEN <<"able">> ELSE <<>>) \o <<"the">>
        \o (IF i > n - k2 THEN <<"god">> ELSE <<>>)]

\* A long corpus of n documents over the first m numbered words: every
\* document holds "the"; word j is in documents j and j + 1, twice in
\* document j unless it is the first word.
LongCorpus(n, m) ==
    [i \in 1..n |->
        <<"the">>
        \o (IF i - 1 \in 1..m THEN <<Term(i - 1)>> ELSE <<>>)
        \o (IF i \in 2..m THEN <<Term(i), Term(i)>>
            ELSE IF i \in 1..m THEN <<Term(i)>> ELSE <<>>)]

\* The states of the corpus server fetch_20newsgroups downloads from: out of
\* reach, a short corpus, or a long one with n_samples documents or one
\* more, over n_features numbered words or one more.
NewsgroupSources ==
    {[state |-> "unreachable", rows |-> <<>>]}
    \cup {[state |-> "ok", rows |-> Corpus(n, k1, k2)] :
             <<n, k1, k2>> \in {t \in (0..MaxDocs) \X (0..MaxDocs) \X {0, 1, 2} :
                                   t[2] <= t[1] /\ t[3] <= t[1]}}
    \cup {[state |-> "ok", rows |-> LongCorpus(n, m)] :
             n \in {n_samples, n_samples + 1}, m \in {n_features, n_features + 1}}

\* Python's seq[:k] for k >= 0.
PyPrefix(s, k) == SubSeqSafe(s, 1, Min(k, Len(s)))

\* ---- sklearn.feature_extraction.text.TfidfVectorizer ----

TfidfVectorizer(maxdf100, mindf, maxfeatures, stopwords) ==
    [max_df_percent |-> maxdf100, min_df |-> mindf, max_features |-> maxfeatures,
     stop_words |-> stopwords, vocabulary_ |-> <<>>]

\* The analyzer: the tokens of a document that are no stop words.
Analyze(v, doc) == SelectSeq(doc, LAMBDA w : w \notin v.stop_words)

\* How often term w occurs in document doc.
TermCount(v, doc, w) == Len(SelectSeq(Analyze(v, doc), LAMBDA t : t = w))

\* _count_vocab: the occurrences of terms in the documents, each as
\* <<term, document, place among the document's terms>>.
Occurrences(v, docs) ==
    UNION {{<<Analyze(v, docs[i])[k], i, k>> : k \in DOMAIN Analyze(v, docs[i])} :
              i \in DOMAIN docs}

\* The terms that occur, sorted.
RawVocabulary(o) == SelectSeq(Lexicon, LAMBDA w : \E t \in o : t[1] = w)

\* The number of documents term w occurs in, and its total count.
DocFreq(o, w) == Cardinality({t[2] : t \in {u \in o : u[1] = w}})
TermFreq(o, w) == Cardinality({t \in o : t[1] = w})

\* _limit_features: mask = (dfs >= min_df) & (dfs <= max_df * n_doc)
DfWithinLimits(v, n_doc, o, w) ==
    LET dfs == DocFreq(o, w)
    IN dfs >= v.min_df /\ 100 * dfs <= v.max_df_percent * n_doc

\* The terms at (-tfs).argsort()[:k]: the k terms of s with the largest
\* total counts.  Among equal counts the earlier term of s comes first, as
\* argsort orders them on short arrays; on the long arrays of the corpora
\* here no two terms on either side of the cut have equal counts.
MostFrequent(o, s, k) ==
    LET tfs == [j \in DOMAIN s |-> TermFreq(o, s[j])] \o <<>>
    IN {s[i] : i \in {i \in DOMAIN s :
                        Cardinality({j \in DOMAIN s :
                                        \/ tfs[j] > tfs[i]
                                        \/ tfs[j] = tfs[i] /\ j < i}) < k}}

\* The vocabulary fit_transform learns from n_doc documents with the
\* occurrences o: the terms within the df limits, the max_features most
\* frequent of them, sorted.
Vocabulary(v, n_doc, o) ==
    LET masked == SelectSeq(RawVocabulary(o), LAMBDA w : DfWithinLimits(v, n_doc, o, w))
        kept == MostFrequent(o, masked, v.max_features)
    IN SelectSeq(masked, LAMBDA w : w \in kept)

\* What fit_transform raises, "" when it raises nothing: an empty
\* vocabulary (no term occurs), max_df * n_doc < min_df, or no term left
\* after pruning.
VectorizerError(v, n_doc, o, voc) ==
    IF o = {} THEN "ValueError: empty vocabulary"
    ELSE IF v.max_df_percent * n_doc < 100 * v.min_df
         THEN "ValueError: max_df corresponds to < documents than min_df"
    ELSE IF voc = <<>> THEN "ValueError: After pruning, no terms remain"
    ELSE ""

\* The sparse matrix fit_transform returns, a row per document and a column
\* per term of the vocabulary voc: the entries that are not zero are the
\* l2-normalised tf * idf weights, which the counts of the vocabulary's
\* terms in the documents determine.
TfidfMatrix(v, docs, voc) ==
    LET columns == Range(voc)
    IN [shape |-> <<Len(docs), Len(voc)>>,
        count |-> [i \in DOMAIN docs |->
                      [w \in Range(Analyze(v, docs[i])) \cap columns |->
                          TermCount(v, docs[i], w)]]]

\* ---- sklearn.decomposition.NMF ----

\* NMF(n_components=k, random_state=1, alpha=.1, l1_ratio=.5).fit(m):
\* components_ is the k x n_features matrix of non-negative weights the
\* solver reaches from m and the seed.  The weights are not computed: the
\* estimator is identified by what it was fitted on, and components_ by
\* its shape.
NmfFit(k, m) ==
    [n_components |-> k, random_state |-> 1, alpha_percent |-> 10, l1_ratio_percent |-> 50,
     fit_on |-> m, components_ |-> [shape |-> <<k, m.shape[2]>>]]

\* ---- print_top_words (lines 175-180) ----

\* The ways numpy's argsort may order a: the permutations that sort it
\* ascending (equal weights in either order).
ArgSorts(a) ==
    {p \in Perms(Len(a)) : \A i, j \in 1..Len(a) : i < j => a[p[i]] <= a[p[j]]}

\* An argsort: one order for every array it is given.
Sorters(arrays) == {f \in [arrays -> UNION {ArgSorts(a) : a \in arrays}] :
                       \A a \in arrays : f[a] \in ArgSorts(a)}

\* A reversed slice that stops one element late (and keeps the element at
\* stop).
PySliceRevKeepsOne(s, stop) ==
    LET lo == IF stop + Len(s) < 0 THEN 0 ELSE stop + Len(s)
    IN [i \in 1..(Len(s) - lo) |-> s[Len(s) + 1 - i]]

\* The same elements in ascending position, as s[stop + 1:] gives them.
PySliceTail(s, stop) ==
    LET lo == IF stop + Len(s) < 0 THEN -1 ELSE stop + Len(s)
    IN [i \in 1..(Len(s) - 1 - lo) |-> s[lo + 1 + i]]

\* Python's s[:stop:-1] for a negative stop: the elements from the last one
\* down to, not including, the one at stop (stop + len, before the first
\* when that is negative).
PySliceRev(s, stop) ==
    LET lo == IF stop + Len(s) < 0 THEN -1 ELSE stop + Len(s)
    IN [i \in 1..(Len(s) - 1 - lo) |-> s[Len(s) + 1 - i]]

\* " ".join(words)
RECURSIVE Join(_)
Join(words) ==
    IF words = <<>> THEN ""
    ELSE IF Len(words) = 1 THEN words[1]
    ELSE words[1] \o " " \o Join(Tail(words))

\* The message of one topic: "Topic #%d: " % topic_idx, then the names.
TopicMessage(topic_idx, names) == "Topic #" \o ToString(topic_idx) \o ": " \o Join(names)

\* The line printed for row t of components (the t-th, topic_idx = t - 1).
TopicLine(components, names, n, sorter, t) ==
    LET top == PySliceRev(sorter[components[t]], -n - 1)
    IN TopicMessage(t - 1, [i \in DOMAIN top |-> names[top[i]]])

\* What print_top_words(model, feature_names, n_top_words) prints: a line
\* per row of model.components_, then an empty line.
PrintTopWords(components, names, n, sorter) ==
    [t \in DOMAIN components |-> [text |-> TopicLine(components, names, n, sorter, t)]]
    \o <<[text |-> ""]>>

\* ---- the statements ----

\* lines 68-73: the imports
T68_Imports == \E l \in {68, 69, 71, 72, 73} : BindsOnlyAt("topics", l)

\* lines 75-78: n_samples = 2000, n_features = 1000, n_components = 10,
\* n_top_words = 20
T75_Constants == \E l \in {75, 76, 77, 78} : BindsOnlyAt("topics", l)

\* lines 86, 115, 136: t0 = time()
T86_ReadClock == \E l \in {86, 115, 136} : BindsOnlyAt("topics", l)

\* line 85: print("Loading dataset...")
T85_PrintLoading == PrintsAt("topics", 85, [text |-> "Loading dataset..."])

\* lines 87-88: dataset = fetch_20newsgroups(shuffle=True, random_state=1, remove=...)
T87_Fetch ==
    /\ At("topics", 87)
    /\ \/ /\ files.state = "ok"
          /\ dataset' = [data |-> files.rows]
          /\ Completes(87)
          /\ UNCHANGED out
       \/ /\ files.state # "ok"
          /\ Raises(87, "URLError")
          /\ UNCHANGED dataset
    /\ UNCHANGED <<tableVars, scalingVars, data_samples, tfidf_vectorizer, tfidf, nmf,
                   tfidf_feature_names, top_n, kmeansVars>>

\* lines 89, 117, 138: print("done in %0.3fs." % (time() - t0))
DoneLine == [text |-> "done in %0.3fs."]
T89_PrintDone == \E l \in {89, 117, 138} : PrintsAt("topics", l, DoneLine)

\* line 108: data_samples = dataset.data[:n_samples]
T108_Samples ==
    /\ At("topics", 108)
    /\ data_samples' = PyPrefix(dataset.data, n_samples)
    /\ Completes(108)
    /\ UNCHANGED <<out, tableVars, scalingVars, dataset, tfidf_vectorizer, tfidf, nmf,
                   tfidf_feature_names, top_n, kmeansVars>>

\* line 111: print("Extracting tf-idf features for NMF...")
T111_PrintExtracting ==
    PrintsAt("topics", 111, [text |-> "Extracting tf-idf features for NMF..."])

\* lines 112-114: tfidf_vectorizer = TfidfVectorizer(max_df=0.95, min_df=2,
\*                    max_features=n_features, stop_words='english')
T112_NewVectorizer ==
    /\ At("topics", 112)
    /\ tfidf_vectorizer' = TfidfVectorizer(95, 2, n_features, {"the"})
    /\ Completes(112)
    /\ UNCHANGED <<out, tableVars, scalingVars, dataset, data_samples, tfidf, nmf,
                   tfidf_feature_names, top_n, kmeansVars>>

\* line 116: tfidf = tfidf_vectorizer.fit_transform(data_samples)
T116_FitTransform ==
    /\ At("topics", 116)
    /\ \E o \in {Occurrences(tfidf_vectorizer, data_samples)} :
       \E voc \in {Vocabulary(tfidf_vectorizer, Len(data_samples), o)} :
       \E e \in {VectorizerError(tfidf_vectorizer, Len(data_samples), o, voc)} :
          \/ /\ e = ""
             /\ tfidf_vectorizer' = [tfidf_vectorizer EXCEPT !.vocabulary_ = voc]
             /\ tfidf' = TfidfMatrix(tfidf_vectorizer, data_samples, voc)
             /\ Completes(116)
             /\ UNCHANGED out
          \/ /\ e # ""
             /\ Raises(116, e)
             /\ UNCHANGED <<tfidf_vectorizer, tfidf>>
    /\ UNCHANGED <<tableVars, scalingVars, dataset, data_samples, nmf,
                   tfidf_feature_names, top_n, kmeansVars>>

\* The line with its two arguments exchanged.
FittingLineSwapped(a, b) ==
    [text |-> "Fitting the NMF model (Frobenius norm) with tf-idf features, n_samples="
                 \o ToString(b) \o " and n_features=" \o ToString(a) \o "...",
     n_samples |-> b, n_features |-> a]

\* The line "Fitting the NMF model (Frobenius norm) with tf-idf features,
\* n_samples=%d and n_features=%d..." % (a, b)
FittingLine(a, b) ==
    [text |-> "Fitting the NMF model (Frobenius norm) with tf-idf features, n_samples="
                 \o ToString(a) \o " and n_features=" \o ToString(b) \o "...",
     n_samples |-> a, n_features |-> b]

\* line 135: print("Fitting the NMF model ..." % (n_samples, n_features))
T135_PrintFitting == PrintsAt("topics", 135, FittingLine(n_samples, n_features))

\* line 137: nmf = NMF(n_components=n_components, random_state=1, alpha=.1,
\*                     l1_ratio=.5).fit(tfidf)
T137_FitNmf ==
    /\ At("topics", 137)
    /\ nmf' = NmfFit(n_components, tfidf)
    /\ Completes(137)
    /\ UNCHANGED <<out, tableVars, scalingVars, dataset, data_samples, tfidf_vectorizer,
                   tfidf, tfidf_feature_names, top_n, kmeansVars>>

\* line 147: tfidf_feature_names = tfidf_vectorizer.get_feature_names()
T147_FeatureNames ==
    /\ At("topics", 147)
    /\ tfidf_feature_names' = tfidf_vectorizer.vocabulary_
    /\ Completes(147)
    /\ UNCHANGED <<out, tableVars, scalingVars, dataset, data_samples, tfidf_vectorizer,
                   tfidf, nmf, top_n, kmeansVars>>

\* line 148: print(tfidf_feature_names)
T148_PrintNames ==
    PrintsAt("topics", 148, [text |-> "feature names", value |-> tfidf_feature_names])

\* line 157: nmf.components_[0], displayed: the first row of the fitted
\* matrix, n_features weights
T157_ShowTopic0 ==
    PrintsAt("topics", 157,
        [text |-> "components_[0]", row |-> 0, of |-> nmf, len |-> nmf.components_.shape[2]])

\* line 166: [(name, magnitude) for (name, magnitude)
\*            in zip(tfidf_feature_names, nmf.components_[0]) if name < 'b'], displayed:
\* the names before 'b' (of the words of the corpora, "able"), each with its
\* weight in the first row
T166_ShowNamesBeforeB ==
    PrintsAt("topics", 166,
        [text |-> "names before b",
         of |-> nmf,
         value |-> LET pairs == [j \in 1..Min(Len(tfidf_feature_names), nmf.components_.shape[2])
                                    |-> <<tfidf_feature_names[j], [row |-> 0, column |-> j - 1]>>]
                   IN SelectSeq(pairs, LAMBDA p : p[1] \in {"able"})])

\* lines 175-180: def print_top_words(model, feature_names, n_top_words)
T175_DefPrintTopWords ==
    /\ At("topics", 175)
    /\ Completes(175)
    /\ UNCHANGED <<out, tableVars, scalingVars, topicVars, kmeansVars>>

\* line 182: print("\nTopics in NMF model (Frobenius norm):")
T182_PrintHeading ==
    /\ At("topics", 182)
    /\ out' = out \o <<[text |-> ""], [text |-> "Topics in NMF model (Frobenius norm):"]>>
    /\ Completes(182)
    /\ UNCHANGED <<tableVars, scalingVars, topicVars, kmeansVars>>

\* line 183: print_top_words(nmf, tfidf_feature_names, n_top_words): a line
\* per row of the fitted matrix, then an empty line.  The weights of the
\* rows are not computed, so a line is its label and the term for the
\* n_top_words names of feature_names that weigh most in the row.
T183_PrintTopWords ==
    /\ At("topics", 183)
    /\ top_n' = n_top_words
    /\ out' = out \o [t \in 1..nmf.components_.shape[1] |->
                         [text |-> TopicMessage(t - 1, <<>>),
                          top |-> Min(n_top_words, nmf.components_.shape[2]),
                          row |-> t - 1, of |-> nmf, names |-> tfidf_feature_names]]
                  \o <<[text |-> ""]>>
    /\ Completes(183)
    /\ UNCHANGED <<tableVars, scalingVars, dataset, data_samples, tfidf_vectorizer,
                   tfidf, nmf, tfidf_feature_names, kmeansVars>>

NextTopics ==
    \/ T68_Imports \/ T75_Constants \/ T86_ReadClock
    \/ T85_PrintLoading \/ T87_Fetch \/ T89_PrintDone \/ T108_Samples
    \/ T111_PrintExtracting \/ T112_NewVectorizer \/ T116_FitTransform
    \/ T135_PrintFitting \/ T137_FitNmf \/ T147_FeatureNames
    \/ T148_PrintNames \/ T157_ShowTopic0 \/ T166_ShowNamesBeforeB
    \/ T175_DefPrintTopWords \/ T182_PrintHeading \/ T183_PrintTopWords


-----------------------------------------------------------------------------
(* print_top_words called on its own, lines 175-180: any model, any        *)
(* n_top_words.                                                            *)

\* Most rows and columns of model.components_, and the largest n_top_words.
MaxTopics == 2
MaxFeatures == 2
MaxTopWords == 3

\* The arguments of a call: a model of k topics over nf features, the nf
\* feature names, and n_top_words.
TopWordsCalls ==
    {[components |-> c, names |-> [j \in 1..nf |-> "w" \o ToString(j)], n |-> n] :
        <<c, nf, n>> \in {t \in (UNION {[1..k -> [1..f -> {0, 1}]] :
                                          k \in 0..MaxTopics, f \in 0..MaxFeatures})
                                 \X (0..MaxFeatures) \X (0..MaxTopWords) :
                              \A i \in DOMAIN t[1] : Len(t[1][i]) = t[2]}}

\* lines 176-180: the body of print_top_words(model, feature_names, n_top_words)
P176_PrintTopWords ==
    /\ At("print_top_words", 176)
    /\ out' \in {out \o PrintTopWords(nmf.components_, tfidf_feature_names, top_n, sorter) :
                    sorter \in Sorters(Range(nmf.components_))}
    /\ Completes(176)
    /\ UNCHANGED <<tableVars, scalingVars, topicVars, kmeansVars>>

NextTopWords == P176_PrintTopWords
-----------------------------------------------------------------------------
(* The unsupervised-learning notebook, src/05-Recommender-MatrixFac.ipynb, *)
(* lines 226-456: the clustering cells (lines 267-299), then the PCA and   *)
(* plotting cells (lines 338-377), which rebind X and y to the iris data.  *)
(* A table of this notebook carries its column names:                      *)
(* [columns |-> names, rows |-> rows with their index labels].             *)

\* Most data rows of data/diamonds.csv (at least one: the header alone is
\* not among the files).
MaxDiamonds == 3

DiamondColumns == <<"Unnamed: 0", "carat", "cut", "color", "clarity",
                    "depth", "table", "price", "x", "y", "z">>

\* The columns read_csv gives dtype object, and the values of each in
\* sorted order.
CategoryValues ==
    [cut |-> <<"Good", "Ideal">>, color |-> <<"E">>, clarity |-> <<"SI1">>]
IsCategorical(c) == c \in DOMAIN CategoryValues

\* The i-th data row of data/diamonds.csv, for a stone of c carats.
DiamondRow(i, c) ==
    <<i, c, IF c = 0 THEN "Good" ELSE "Ideal", "E", "SI1", 60, 55, 300 + 1000 * c, c, c, c>>

DiamondFiles ==
    {[state |-> "missing", rows |-> <<>>], [state |-> "malformed", rows |-> <<>>]}
    \cup {[state |-> "ok", rows |-> [i \in DOMAIN r |-> DiamondRow(i, r[i])]] :
             r \in UNION {[1..n -> {0, 1, 2}] : n \in 1..MaxDiamonds}}

\* ---- pandas ----

\* The position of column name c in table d.
ColumnPos(d, c) == CHOOSE j \in DOMAIN d.columns : d.columns[j] = c

\* seq without its j-th element.
WithoutPos(s, j) == SubSeqSafe(s, 1, j - 1) \o SubSeqSafe(s, j + 1, Len(s))

\* d.drop(name, axis=1)
DropColumn(d, c) ==
    [columns |-> WithoutPos(d.columns, ColumnPos(d, c)),
     rows |-> [i \in DOMAIN d.rows |->
                  [index |-> d.rows[i].index,
                   row |-> WithoutPos(d.rows[i].row, ColumnPos(d, c))]]]

\* The values column c takes in d, in sorted order.
LevelsOf(d, c) ==
    SelectSeq(CategoryValues[c],
              LAMBDA v : \E i \in DOMAIN d.rows : d.rows[i].row[ColumnPos(d, c)] = v)

\* The indicator columns of categorical column c: <<c, value>> pairs.
DummiesOf(d, c) == [k \in DOMAIN LevelsOf(d, c) |-> <<c, LevelsOf(d, c)[k]>>]

RECURSIVE Flatten(_)
Flatten(seqs) == IF seqs = <<>> THEN <<>> ELSE Head(seqs) \o Flatten(Tail(seqs))

\* pd.get_dummies(d): the numeric columns in their order, then for each
\* categorical column, in their order, one 0/1 column per value present.
GetDummies(d) ==
    LET numeric == SelectSeq(d.columns, LAMBDA c : ~IsCategorical(c))
        categorical == SelectSeq(d.columns, LAMBDA c : IsCategorical(c))
        dummies == Flatten([k \in DOMAIN categorical |-> DummiesOf(d, categorical[k])])
    IN [columns |-> [j \in DOMAIN numeric |-> numeric[j]]
                    \o [j \in DOMAIN dummies |-> dummies[j][1] \o "_" \o dummies[j][2]],
        rows |-> [i \in DOMAIN d.rows |->
                    [index |-> d.rows[i].index,
                     row |-> [j \in DOMAIN numeric |-> d.rows[i].row[ColumnPos(d, numeric[j])]]
                             \o [j \in DOMAIN dummies |->
                                    IF d.rows[i].row[ColumnPos(d, dummies[j][1])] = dummies[j][2]
                                    THEN 1 ELSE 0]]]]

\* ---- sklearn.cluster.KMeans ----

n_clusters == 3
max_iter == 300

\* A centre is the mean of `cnt` rows that sum to `sum`.
CentreAt(x) == [sum |-> x, cnt |-> 1]

\* cnt^2 times the squared distance from row x to centre c.
DistNum(x, c) ==
    SumSeq([d \in DOMAIN x |-> (c.cnt * x[d] - c.sum[d]) * (c.cnt * x[d] - c.sum[d])])

\* Row x is strictly closer to centre a than to centre b.
Closer(x, a, b) == DistNum(x, a) * b.cnt * b.cnt < DistNum(x, b) * a.cnt * a.cnt

\* The centre nearest to x, the first of them when several are.
NearestCentre(x, centres) ==
    CHOOSE j \in DOMAIN centres :
        /\ \A k \in DOMAIN centres : ~Closer(x, centres[k], centres[j])
        /\ \A k \in 1..(j - 1) : Closer(x, centres[j], centres[k])

\* Labels dealt out by row position, whatever the centres.
LabelsByPosition(m, centres) == [i \in DOMAIN m |-> ((i - 1) % Len(centres)) + 1]

\* E-step: every row gets the label of its nearest centre.
EStep(m, centres) == [i \in DOMAIN m |-> NearestCentre(m[i], centres)]

\* Row a is at least as far from its own centre as row b is from its own.
OwnDistGe(m, centres, labels, a, b) ==
    DistNum(m[a], centres[labels[a]]) * centres[labels[b]].cnt * centres[labels[b]].cnt
        >= DistNum(m[b], centres[labels[b]]) * centres[labels[a]].cnt * centres[labels[a]].cnt

\* distances.argsort()[::-1]: the rows by non-increasing distance to their
\* own centre.  The order argsort gives to equal distances is the sort
\* routine's; it is taken to be a fixed priority among the rows, `tie`.
FarOrder(m, centres, labels, tie) ==
    LET Before(a, b) ==
            \/ ~OwnDistGe(m, centres, labels, b, a)
            \/ /\ OwnDistGe(m, centres, labels, a, b)
               /\ OwnDistGe(m, centres, labels, b, a)
               /\ \E i, j \in DOMAIN tie : i < j /\ tie[i] = a /\ tie[j] = b
    IN [e \in DOMAIN m |->
           CHOOSE a \in DOMAIN m : Cardinality({b \in DOMAIN m : Before(b, a)}) = e - 1]

\* The rows labelled j.
Members(labels, j) == {i \in DOMAIN labels : labels[i] = j}

\* The rows of m at the positions in `members`, summed by column.
RowSum(m, members) ==
    [d \in 1..NCols(m) |-> SumSeq(SelectSeq([i \in DOMAIN m |-> IF i \in members THEN m[i][d] ELSE 0],
                                            LAMBDA v : TRUE))]

\* M-step: a centre becomes the mean of its rows; the e-th cluster without
\* rows takes the e-th farthest row as its centre.
MStep(m, k, labels, far) ==
    [j \in 1..k |->
        IF Members(labels, j) # {}
        THEN [sum |-> RowSum(m, Members(labels, j)), cnt |-> Cardinality(Members(labels, j))]
        ELSE CentreAt(m[far[Cardinality({e \in 1..j : Members(labels, e) = {}})]])]

RECURSIVE ProdSeq(_)
ProdSeq(s) == IF s = <<>> THEN 1 ELSE Head(s) * ProdSeq(Tail(s))

\* center_shift_total, the sum of the squared moves of the centres, times
\* ShiftDen.
ShiftDen(old, new) ==
    ProdSeq([j \in DOMAIN old |-> old[j].cnt * new[j].cnt * old[j].cnt * new[j].cnt])
ShiftNum(old, new) ==
    SumSeq([j \in DOMAIN old |->
               SumSeq([d \in DOMAIN old[j].sum |->
                          (old[j].sum[d] * new[j].cnt - new[j].sum[d] * old[j].cnt)
                          * (old[j].sum[d] * new[j].cnt - new[j].sum[d] * old[j].cnt)])
               * (ShiftDen(old, new) \div (old[j].cnt * new[j].cnt * old[j].cnt * new[j].cnt))])

\* center_shift_total <= tol, with tol = 1e-4 * mean(var(X, axis=0)).
ShiftWithinTol(m, old, new) ==
    ShiftNum(old, new)
        <= (ShiftDen(old, new) * SumSeq([d \in 1..NCols(m) |-> VarNum(m, d)]))
           \div (10000 * NCols(m) * Len(m) * Len(m))

\* The inertia of a labelling: the squared distances of the rows to their
\* centres, summed, as num / den.
Inertia(m, centres, labels) ==
    LET den == ProdSeq([j \in DOMAIN centres |-> centres[j].cnt * centres[j].cnt])
    IN [num |-> SumSeq([i \in DOMAIN m |->
                           DistNum(m[i], centres[labels[i]])
                           * (den \div (centres[labels[i]].cnt * centres[labels[i]].cnt))]),
        den |-> den]

\* The best iteration after one more: its labels, the centres its M-step
\* gave, its inertia.
BestAfter(best, labels, new, inertia) ==
    IF \/ ~best.some
       \/ inertia.num * best.inertia.den < best.inertia.num * inertia.den
    THEN [some |-> TRUE, labels |-> labels, centres |-> new, inertia |-> inertia]
    ELSE best

\* One run of Lloyd's iteration from `centres`: the labellings it may end
\* with.  best is the iteration of least inertia so far, NoBest before the
\* first.  tie is the priority FarOrder uses, <<>> until a cluster is empty
\* for the first time: every priority is possible then, and it stays the
\* run's.  The loop ends when the centres move by no more than tol, or
\* after max_iter iterations; the labels are those of the best iteration,
\* assigned anew when the centres still moved.
RECURSIVE Lloyd(_, _, _, _, _)
Lloyd(m, centres, best, iter, tie) ==
    UNION {
      IF (\E j \in DOMAIN centres : Members(labels, j) = {}) /\ tie = <<>>
      THEN UNION {Lloyd(m, centres, best, iter, t) : t \in Perms(Len(m))}
      ELSE UNION {
             UNION {
               IF ShiftWithinTol(m, centres, new) \/ iter + 1 = max_iter
               THEN {IF ShiftNum(centres, new) > 0 THEN EStep(m, best2.centres)
                     ELSE best2.labels}
               ELSE Lloyd(m, new, best2, iter + 1, tie)
               : best2 \in {BestAfter(best, labels, new, Inertia(m, centres, labels))}}
             : new \in {MStep(m, Len(centres), labels,
                              IF tie = <<>> THEN [i \in DOMAIN m |-> i]
                              ELSE FarOrder(m, centres, labels, tie))}}
      : labels \in {EStep(m, centres)}}

\* The seeds k-means++ may draw: k rows, one after the other, each among
\* the rows at a distance from every row chosen before, the first row when
\* there is none.
RECURSIVE Seeds(_, _, _)
Seeds(m, chosen, k) ==
    IF Len(chosen) = k THEN {chosen}
    ELSE UNION {Seeds(m, Append(chosen, i), k) :
                   i \in IF \A r \in DOMAIN m : \E c \in Range(chosen) : m[r] = m[c]
                         THEN {1}
                         ELSE {r \in DOMAIN m : \A c \in Range(chosen) : m[r] # m[c]}}

\* The labellings (1..k) KMeans(n_clusters=k).fit_predict(m) may return:
\* the best of n_init runs is one of the runs.
KMeansLabellings(m, k) ==
    UNION {Lloyd(m, centres, [some |-> FALSE, labels |-> <<>>, centres |-> <<>>,
                              inertia |-> [num |-> 0, den |-> 1]], 0, <<>>) :
              centres \in {[j \in 1..k |-> CentreAt(m[seed[j]])] : seed \in Seeds(m, <<>>, k)}}

\* ---- sklearn.datasets.load_iris, sklearn.decomposition.PCA, matplotlib ----

\* datasets.load_iris(): the arrays of the iris data set that ships with the
\* library, kept by name and shape (150 flowers, 4 measurements, a class 0,
\* 1 or 2 each), and the names of the three classes.
LoadIris ==
    [data |-> [array |-> "iris.data", shape |-> <<150, 4>>],
     target |-> [array |-> "iris.target", shape |-> <<150>>],
     target_names |-> <<"setosa", "versicolor", "virginica">>]

\* PCA(n_components=k)
PCA(k) == [n_components |-> k, fitted |-> FALSE]

\* p.fit(m): components_ and explained_variance_ratio_ are those of m; the
\* estimator is identified by what it was fitted on.
PcaFit(p, m) == [n_components |-> p.n_components, fitted |-> TRUE, fit_X |-> m]

\* p.transform(m): one row per row of m, n_components columns.
PcaTransform(p, m) ==
    [array |-> "PCA.transform", model |-> p, X |-> m,
     shape |-> <<m.shape[1], p.n_components>>]

\* The artists the loop of lines 373-375 adds, one
\* plt.scatter(X_r[y == i, 0], X_r[y == i, 1], color=color, alpha=.8, lw=lw,
\*             label=target_name)
\* a turn: zip stops with the shortest of colors, [0, 1, 2] and target_names.
ScatterClasses(xr, ys, cols, width, names) ==
    [k \in 1..Min(Len(cols), Min(3, Len(names))) |->
        [artist |-> "scatter", points |-> xr, of_class |-> ys, class |-> k - 1,
         color |-> cols[k], lw |-> width, label |-> names[k]]]

\* ---- the statements ----

\* lines 267-269, 285 and 338-340: the imports
K267_Imports ==
    \E l \in {267, 268, 269, 285, 338, 339, 340} : BindsOnlyAt("kmeans", l)

\* line 271: df = pd.read_csv('data/diamonds.csv')
K271_ReadCsv ==
    /\ At("kmeans", 271)
    /\ \/ /\ files.state = "ok"
          /\ df' = [columns |-> DiamondColumns, rows |-> ReadCsv(files.rows)]
          /\ Completes(271)
          /\ UNCHANGED out
       \/ /\ files.state # "ok"
          /\ Raises(271, ReadCsvError(files.state))
          /\ UNCHANGED df
    /\ UNCHANGED <<X, y, scalingVars, topicVars, kmeansVars>>

\* line 272: df2 = df.drop(df.columns[0], axis=1)
K272_DropFirstColumn ==
    /\ At("kmeans", 272)
    /\ df2' = DropColumn(df, df.columns[1])
    /\ Completes(272)
    /\ UNCHANGED <<out, tableVars, scalingVars, topicVars, df3, cluster_labels, kdf, pcaVars>>

\* line 273: df3 = pd.get_dummies(df2)
K273_GetDummies ==
    /\ At("kmeans", 273)
    /\ df3' = GetDummies(df2)
    /\ Completes(273)
    /\ UNCHANGED <<out, tableVars, scalingVars, topicVars, df2, cluster_labels, kdf, pcaVars>>

\* line 275: y = df3.iloc[:,3]
K275_SelectPrice ==
    /\ At("kmeans", 275)
    /\ y' = ILocCol(df3.rows, 3)
    /\ Completes(275)
    /\ UNCHANGED <<out, df, X, scalingVars, topicVars, kmeansVars>>

\* line 276: X = df3.drop(df3.columns[3], axis=1)
K276_DropPrice ==
    /\ At("kmeans", 276)
    /\ X' = DropColumn(df3, df3.columns[4])
    /\ Completes(276)
    /\ UNCHANGED <<out, df, y, scalingVars, topicVars, kmeansVars>>

\* line 287: cluster_labels = KMeans(n_clusters=3).fit_predict(X); the labels
\* fit_predict returns count from 0.
K287_FitPredict ==
    /\ At("kmeans", 287)
    /\ \/ /\ Len(X.rows) >= n_clusters
          /\ \E m \in {Values(X.rows)} : \E l \in KMeansLabellings(m, n_clusters) :
                cluster_labels' = [i \in DOMAIN l |-> l[i] - 1]
          /\ Completes(287)
          /\ UNCHANGED out
       \/ /\ Len(X.rows) < n_clusters
          /\ Raises(287, "ValueError")
          /\ UNCHANGED cluster_labels
    /\ UNCHANGED <<tableVars, scalingVars, topicVars, df2, df3, kdf, pcaVars>>

\* line 289: cluster_labels, displayed
K289_ShowLabels ==
    PrintsAt("kmeans", 289, [text |-> "cluster_labels", value |-> cluster_labels])

\* line 298: kdf = pd.DataFrame(data=np.column_stack([cluster_labels, y]),
\*                              columns=['cluster', 'price'])
K298_ClusterPriceFrame ==
    /\ At("kmeans", 298)
    /\ kdf' = [columns |-> <<"cluster", "price">>,
               rows |-> [i \in DOMAIN cluster_labels |->
                            [index |-> i - 1, row |-> <<cluster_labels[i], y[i].value>>]]]
    /\ Completes(298)
    /\ UNCHANGED <<out, tableVars, scalingVars, topicVars, df2, df3, cluster_labels, pcaVars>>

\* kdf[kdf.cluster==n]['price'].mean(): a sum over a count, NaN for no rows.
ClusterMeanPrice(k, n) ==
    LET prices == SelectSeq([i \in DOMAIN k.rows |-> k.rows[i].row],
                            LAMBDA r : r[ColumnPos(k, "cluster")] = n)
    IN IF prices = <<>> THEN [nan |-> TRUE, sum |-> 0, count |-> 0]
       ELSE [nan |-> FALSE,
             sum |-> SumSeq([i \in DOMAIN prices |-> prices[i][ColumnPos(k, "price")]]),
             count |-> Len(prices)]

\* line 299: print([kdf[kdf.cluster==n]['price'].mean() for n in range(0,3)])
K299_PrintMeanPrices ==
    PrintsAt("kmeans", 299,
             [text |-> "mean prices", value |-> [n \in 1..3 |-> ClusterMeanPrice(kdf, n - 1)]])

\* A statement at line l that changes only the names of the PCA cells.
PcaStatementAt(l) ==
    /\ At("kmeans", l)
    /\ Completes(l)
    /\ UNCHANGED <<df, scalingVars, topicVars, df2, df3, cluster_labels, kdf>>

\* line 342: iris = datasets.load_iris()
K342_LoadIris ==
    /\ PcaStatementAt(342)
    /\ iris' = LoadIris
    /\ UNCHANGED <<out, X, y, target_names, pca, X_r, colors, lw, axes>>

\* line 343: X = iris.data
K343_RebindX ==
    /\ PcaStatementAt(343)
    /\ X' = iris.data
    /\ UNCHANGED <<out, y, iris, target_names, pca, X_r, colors, lw, axes>>

\* line 344: y = iris.target
K344_RebindY ==
    /\ PcaStatementAt(344)
    /\ y' = iris.target
    /\ UNCHANGED <<out, X, iris, target_names, pca, X_r, colors, lw, axes>>

\* line 345: target_names = iris.target_names
K345_TargetNames ==
    /\ PcaStatementAt(345)
    /\ target_names' = iris.target_names
    /\ UNCHANGED <<out, X, y, iris, pca, X_r, colors, lw, axes>>

\* line 347: pca = PCA(n_components=2)
K347_NewPca ==
    /\ PcaStatementAt(347)
    /\ pca' = PCA(2)
    /\ UNCHANGED <<out, X, y, iris, target_names, X_r, colors, lw, axes>>

\* line 348: X_r = pca.fit(X).transform(X); fit returns the estimator itself
K348_FitTransform ==
    /\ PcaStatementAt(348)
    /\ pca' = PcaFit(pca, X)
    /\ X_r' = PcaTransform(pca', X)
    /\ UNCHANGED <<out, X, y, iris, target_names, colors, lw, axes>>

\* lines 351-352: print('explained variance ratio (first two components): %s'
\*                      % str(pca.explained_variance_ratio_))
K351_PrintVarianceRatio ==
    PrintsAt("kmeans", 351,
             [text |-> "explained variance ratio (first two components): %s", of |-> pca])

\* line 361: pca.components_, displayed
K361_ShowComponents ==
    PrintsAt("kmeans", 361, [text |-> "pca.components_", of |-> pca])

\* line 370: colors = ['navy', 'turquoise', 'darkorange']
K370_Colors ==
    /\ PcaStatementAt(370)
    /\ colors' = <<"navy", "turquoise", "darkorange">>
    /\ UNCHANGED <<out, X, y, iris, target_names, pca, X_r, lw, axes>>

\* line 371: lw = 2
K371_LineWidth ==
    /\ PcaStatementAt(371)
    /\ lw' = 2
    /\ UNCHANGED <<out, X, y, iris, target_names, pca, X_r, colors, axes>>

\* lines 373-375: for color, i, target_name in zip(colors, [0, 1, 2], target_names):
\*                    plt.scatter(...)
K373_ScatterClasses ==
    /\ PcaStatementAt(373)
    /\ axes' = axes \o ScatterClasses(X_r, y, colors, lw, target_names)
    /\ UNCHANGED <<out, X, y, iris, target_names, pca, X_r, colors, lw>>

\* line 376: plt.legend(loc='best', shadow=False, scatterpoints=1)
K376_Legend ==
    /\ PcaStatementAt(376)
    /\ axes' = Append(axes, [artist |-> "legend", loc |-> "best"])
    /\ UNCHANGED <<out, X, y, iris, target_names, pca, X_r, colors, lw>>

\* line 377: plt.title('PCA of IRIS dataset'), displayed, and the figure with it
K377_Title ==
    /\ PcaStatementAt(377)
    /\ axes' = Append(axes, [artist |-> "title", text |-> "PCA of IRIS dataset"])
    /\ out' = Append(out, [text |-> "Text(0.5, 1.0, 'PCA of IRIS dataset')", figure |-> axes'])
    /\ UNCHANGED <<X, y, iris, target_names, pca, X_r, colors, lw>>

NextKMeans ==
    \/ K267_Imports
    \/ K271_ReadCsv \/ K272_DropFirstColumn \/ K273_GetDummies \/ K275_SelectPrice
    \/ K276_DropPrice \/ K287_FitPredict \/ K289_ShowLabels \/ K298_ClusterPriceFrame
    \/ K299_PrintMeanPrices
    \/ K342_LoadIris \/ K343_RebindX \/ K344_RebindY \/ K345_TargetNames
    \/ K347_NewPca \/ K348_FitTransform \/ K351_PrintVarianceRatio
    \/ K361_ShowComponents \/ K370_Colors \/ K371_LineWidth \/ K373_ScatterClasses
    \/ K376_Legend \/ K377_Title

-----------------------------------------------------------------------------
(* Specifications. *)

\* A fresh kernel about to run notebook n against data source f.
KernelAt(n, f) ==
    /\ nb = n /\ pc = 1 /\ err = NoError /\ ran = <<>> /\ out = <<>> /\ files = f

\* The variables of the tables and estimators hold what an unbound name's
\* variable holds.
NoValues ==
    /\ df = NoValue /\ X = NoValue /\ y = NoValue
    /\ X_train = NoValue /\ X_test = NoValue /\ y_train = NoValue /\ y_test = NoValue
    /\ lr = NoValue /\ linear = NoValue /\ y_pred = NoValue /\ ss = NoValue
    /\ X_train_ss = NoValue
    /\ df2 = NoValue /\ df3 = NoValue /\ cluster_labels = NoValue /\ kdf = NoValue
    /\ iris = NoValue /\ target_names = NoValue /\ pca = NoValue /\ X_r = NoValue
    /\ colors = NoValue /\ lw = NoValue /\ axes = <<>>
    /\ dataset = NoValue /\ data_samples = NoValue /\ tfidf_vectorizer = NoValue
    /\ tfidf = NoValue

\* No name is bound.
FreshKernel(n, f) ==
    /\ KernelAt(n, f) /\ bound = {}
    /\ NoValues
    /\ nmf = NoValue /\ tfidf_feature_names = NoValue /\ top_n = 0

InitScaling == \E f \in PowerPlantFiles : FreshKernel("scaling", f)

SpecScaling == InitScaling /\ [][NextScaling]_vars


InitTopics == \E f \in NewsgroupSources : FreshKernel("topics", f)

SpecTopics == InitTopics /\ [][NextTopics]_vars

\* print_top_words about to be called with the arguments c.
InitTopWords ==
    \E c \in TopWordsCalls :
        /\ KernelAt("print_top_words", [state |-> "ok", rows |-> <<>>])
        /\ bound = {"print_top_words"}
        /\ NoValues
        /\ nmf = [components_ |-> c.components, fit_on |-> NoValue]
        /\ tfidf_feature_names = c.names
        /\ top_n = c.n

SpecTopWords == InitTopWords /\ [][NextTopWords]_vars

InitKMeans == \E f \in DiamondFiles : FreshKernel("kmeans", f)

SpecKMeans == InitKMeans /\ [][NextKMeans]_vars

\* A run of any of the notebooks.
Init == InitScaling \/ InitTopics \/ InitKMeans

Next == NextScaling \/ NextTopics \/ NextKMeans

Spec == Init /\ [][Next]_vars
-----------------------------------------------------------------------------
(* Properties of the scaling notebook. *)

\* The index labels of a frame, as a set.
IndexSet(d) == {d[i].index : i \in DOMAIN d}

\* The scaler and the standardised training matrix the training fold determines.
TrainScaler == ScalerFit(Values(X_train))
TrainScaled == ScalerApply(TrainScaler, Values(X_train))

\* C1: the scaler's statistics are those of the training fold's rows, from
\* the fit at line 73 on, ss.transform(X_test) at line 85 included; the
\* regression is fitted on the training fold standardised with them, the
\* prediction is made on the test rows standardised with them, and no row is
\* in both folds.
C1_ScalerFromTrainingFoldOnly ==
    /\ Completed(69) => IndexSet(X_train) \cap IndexSet(X_test) = {}
    /\ Completed(73) => ss = TrainScaler /\ X_train_ss = TrainScaled
    /\ Completed(76) => linear = RegressionFit(TrainScaled, SeriesValues(y_train))
    /\ Completed(85) =>
          y_pred = Predict(linear, ScalerApply(TrainScaler, Values(X_test)))

\* C1's case: the test fold has been transformed, and its own statistics
\* differ from the training fold's.
C1_Witness ==
    /\ Completed(85)
    /\ ScalerFit(Values(X_test)) # ss

\* The entries of column j of a standardised matrix sum to zero: mean zero.
ScaledMeanZero(z, j) == SumSeq([i \in DOMAIN z |-> z[i][j].num]) = 0

\* Column j of a standardised matrix has variance one:
\* (1/n) sum z^2 - ((1/n) sum z)^2 = 1 with z = num / sqrt(den2).
ScaledUnitVariance(z, j) ==
    LET n == Len(z)
        s1 == SumSeq([i \in DOMAIN z |-> z[i][j].num])
        s2 == SumSeq([i \in DOMAIN z |-> z[i][j].num * z[i][j].num])
    IN n * s2 - s1 * s1 = n * n * z[1][j].den2

\* Column j of a matrix holds one value only.
ConstantColumn(m, j) == \A i \in DOMAIN m : m[i][j] = m[1][j]

\* C2 as stated: after line 73 every column of X_train_ss has mean zero and
\* unit variance, a constant column included.
C2_EveryColumnUnitVariance ==
    Completed(73) =>
        \A j \in 1..NCols(X_train_ss) :
            ScaledMeanZero(X_train_ss, j) /\ ScaledUnitVariance(X_train_ss, j)

\* C2 amended: after line 73 every column of X_train_ss has mean zero; a
\* column that is not constant over the training fold has unit variance, a
\* constant one is all zeros.
C2_UnitVarianceUnlessConstant ==
    Completed(73) =>
        \A j \in 1..NCols(X_train_ss) :
            /\ ScaledMeanZero(X_train_ss, j)
            /\ IF ConstantColumn(Values(X_train), j)
               THEN \A i \in DOMAIN X_train_ss : X_train_ss[i][j].num = 0
               ELSE ScaledUnitVariance(X_train_ss, j)

\* C2's case: a fitted fold with a varying column of non-zero mean.
C2_Witness ==
    /\ Completed(73)
    /\ \E j \in 1..NCols(X_train_ss) :
          /\ ~ConstantColumn(Values(X_train), j)
          /\ ss.mean_num[j] # 0
          /\ ScaledUnitVariance(X_train_ss, j)

\* The RMSE lines printed so far.
RmseLines == SelectSeq(out, LAMBDA l : l.text = "RMSE")

\* C3 as stated: the standardised pipeline's RMSE (line 86) is computed on
\* the test rows the baseline's RMSE (line 46) was computed on.
C3_SameTestRows ==
    Completed(86) =>
        IndexSet(RmseLines[1].y_true) = IndexSet(RmseLines[2].y_true)
-----------------------------------------------------------------------------
(* Properties of the topic-modelling notebook. *)

\* The number of documents of docs that hold word w.
DocsWith(docs, w) == Cardinality({i \in DOMAIN docs : \E k \in DOMAIN docs[i] : docs[i][k] = w})

\* C7 as stated: the vocabulary holds no word of only one document, no word
\* of at least 95% of the documents, and at most n_features terms.
C7_NoTermInAtLeast95Percent ==
    Completed(116) =>
        /\ Len(tfidf_vectorizer.vocabulary_) <= n_features
        /\ \A w \in Range(tfidf_vectorizer.vocabulary_) :
              /\ DocsWith(data_samples, w) # 1
              /\ 100 * DocsWith(data_samples, w) < 95 * Len(data_samples)

\* A sequence of feature names is what row `topic` prints at indices idx.
PrintsIndices(line, t, names, idx) ==
    line.text = TopicMessage(t - 1, [i \in DOMAIN idx |-> names[idx[i]]])

\* C8: for every row of model.components_ the line printed holds exactly
\* min(n_top_words, number of features) names, at distinct feature indices,
\* and no feature left out weighs strictly more in the row than one printed
\* (so with n_top_words = 0 no name is printed).
C8_PrintsTopRankedTerms ==
    Completed(176) =>
        \A t \in DOMAIN nmf.components_ :
            LET topic == nmf.components_[t]
                nf == Len(topic)
            IN \E idx \in [1..Min(top_n, nf) -> 1..nf] :
                  /\ PrintsIndices(out[t], t, tfidf_feature_names, idx)
                  /\ \A i, j \in DOMAIN idx : idx[i] = idx[j] => i = j
                  /\ \A i \in DOMAIN idx : \A f \in (1..nf) \ Range(idx) :
                        topic[f] <= topic[idx[i]]

\* C8's case: a call that prints some but not all features of a topic whose
\* weights differ.
C8_Witness ==
    /\ Completed(176)
    /\ top_n > 0
    /\ \E t \in DOMAIN nmf.components_ :
          /\ top_n < Len(nmf.components_[t])
          /\ \E f, g \in DOMAIN nmf.components_[t] :
                nmf.components_[t][f] < nmf.components_[t][g]

\* C9: print_top_words prints one line per row of model.components_, in row
\* order, the t-th labelled "Topic #" and t - 1, then one empty line; the
\* names of a line are in non-increasing order of their weight in the row.
C9_OneLinePerTopicDescending ==
    Completed(176) =>
        /\ Len(out) = Len(nmf.components_) + 1
        /\ out[Len(out)].text = ""
        /\ \A t \in DOMAIN nmf.components_ :
              LET topic == nmf.components_[t]
                  nf == Len(topic)
              IN \E idx \in UNION {[1..k -> 1..nf] : k \in 0..nf} :
                    /\ PrintsIndices(out[t], t, tfidf_feature_names, idx)
                    /\ \A i, j \in DOMAIN idx : i < j => topic[idx[i]] >= topic[idx[j]]

\* C9's case: two topics printed, one of them with two names of different
\* weights.
C9_Witness ==
    /\ Completed(176)
    /\ Len(nmf.components_) = 2
    /\ top_n >= 2
    /\ \E t \in DOMAIN nmf.components_ :
          /\ Len(nmf.components_[t]) >= 2
          /\ nmf.components_[t][1] # nmf.components_[t][2]

\* The line printed at line 135.
FittingLines == SelectSeq(out, LAMBDA l : "n_samples" \in DOMAIN l)

\* C10 as stated: the n_samples and n_features printed before the fit are
\* the numbers of rows and of columns of tfidf.
C10_MessageReportsMatrixShape ==
    Completed(135) =>
        /\ FittingLines[1].n_samples = tfidf.shape[1]
        /\ FittingLines[1].n_features = tfidf.shape[2]

\* The terms of the fitted documents that pass the vectorizer's filters:
\* no stop word, in at least min_df documents and in at most max_df of them.
SurvivingTerms ==
    {w \in Range(Lexicon) \ tfidf_vectorizer.stop_words :
        LET d == DocsWith(data_samples, w)
        IN /\ d >= tfidf_vectorizer.min_df
           /\ 100 * d <= tfidf_vectorizer.max_df_percent * Len(data_samples)}

\* C10 amended: the message prints the constants n_samples and n_features;
\* tfidf has min(n_samples, number of documents fetched) rows and
\* min(n_features, number of terms that pass the filters) columns, so the
\* printed numbers bound its shape from above and equal it only for a corpus
\* of at least n_samples documents with at least n_features such terms
\* (the columns are compared when line 135 has just printed).
C10_MessageReportsConfiguredLimits ==
    Completed(135) =>
        /\ FittingLines[1].n_samples = n_samples
        /\ FittingLines[1].n_features = n_features
        /\ tfidf.shape[1] = Min(FittingLines[1].n_samples, Len(dataset.data))
        /\ tfidf.shape[2] <= FittingLines[1].n_features
        /\ ran[Len(ran)] = 135 =>
              tfidf.shape[2] = Min(FittingLines[1].n_features, Cardinality(SurvivingTerms))

\* C10's case: the message is printed for a corpus of more than n_samples
\* documents with more than n_features terms that pass the filters, so
\* line 108 has cut the documents and max_features the vocabulary.
C10_Witness ==
    /\ Completed(135)
    /\ ran[Len(ran)] = 135
    /\ Len(dataset.data) > n_samples
    /\ tfidf.shape = <<n_samples, n_features>>
    /\ Cardinality(SurvivingTerms) > n_features
-----------------------------------------------------------------------------
(* Properties of the diamonds k-means notebook (SpecKMeans). *)

\* The table line 287 clustered: X as line 276 bound it, until line 343
\* binds the name to the iris data.
ClusteredX == IF Completed(343) THEN DropColumn(df3, df3.columns[4]) ELSE X

\* The distinct rows of the clustered table, as value tuples.
DistinctRows == Range(Values(ClusteredX.rows))

\* The labels fit_predict gave to some row.
LabelsUsed == Range(cluster_labels)

\* The per-cluster mean prices line 299 printed, when it has.
MeanPrices == out[2].value

\* C6 as stated: once fit_predict has returned there is one label per row
\* of the X it clustered and the labels take exactly the three values 0, 1 and 2, and every
\* mean price line 299 prints is taken over at least one row.
C6_ExactlyThreeLabels ==
    /\ Completed(287) =>
          /\ Len(cluster_labels) = Len(ClusteredX.rows)
          /\ LabelsUsed = {0, 1, 2}
    /\ Completed(299) => \A n \in 1..3 : ~MeanPrices[n].nan

\* C6, amended: once fit_predict has returned there is one label per row of
\* the X it clustered, every label is 0, 1 or 2, rows with equal values carry equal labels
\* (so no more labels are used than X has distinct rows), and the mean price
\* line 299 prints for a cluster is NaN exactly when no row carries its label.
C6_LabelsWithinThree ==
    /\ Completed(287) =>
          /\ Len(cluster_labels) = Len(ClusteredX.rows)
          /\ LabelsUsed \subseteq {0, 1, 2}
          /\ \A i, j \in DOMAIN cluster_labels :
                Values(ClusteredX.rows)[i] = Values(ClusteredX.rows)[j]
                    => cluster_labels[i] = cluster_labels[j]
          /\ Cardinality(LabelsUsed) <= Min(n_clusters, Cardinality(DistinctRows))
    /\ Completed(299) =>
          \A n \in 1..3 : MeanPrices[n].nan <=> (n - 1) \notin LabelsUsed

\* A run on a file with three or more rows of which two are equal: a
\* cluster got no row and its mean price was printed as NaN.
C6_Witness ==
    /\ Completed(299)
    /\ Len(ClusteredX.rows) >= n_clusters
    /\ Cardinality(DistinctRows) < Len(ClusteredX.rows)
    /\ Cardinality(LabelsUsed) < n_clusters
    /\ \E n \in 1..3 : MeanPrices[n].nan

-----------------------------------------------------------------------------
(* Properties of every notebook run (Spec). *)

\* Statement a completed before statement b did.
RanBefore(a, b) == \E j \in DOMAIN ran : ran[j] = b /\ \E i \in 1..(j - 1) : ran[i] = a

\* The fits of the notebooks with the statements that load and transform
\* their data, and the statements that report on them.
Fits ==
    {[nb |-> "scaling", fit |-> 44, data |-> {39, 40, 41, 42}, reports |-> {45, 46, 47}],
     [nb |-> "scaling", fit |-> 76, data |-> {39, 40, 41, 69, 71, 73},
      reports |-> {85, 86, 104}],
     [nb |-> "topics", fit |-> 137, data |-> {87, 108, 112, 116}, reports |-> {157, 166, 183}],
     [nb |-> "kmeans", fit |-> 287, data |-> {271, 272, 273, 275, 276},
      reports |-> {289, 298, 299}],
     [nb |-> "kmeans", fit |-> 348, data |-> {342, 343, 347}, reports |-> {351, 361, 373}]}

\* The names that hold a fitted model or what a fitted model computed, with
\* the statement that fits the model.
FittedNames ==
    {<<"linear", 44>>, <<"y_pred", 44>>, <<"X_train_ss", 73>>, <<"nmf", 137>>,
     <<"cluster_labels", 287>>, <<"kdf", 287>>, <<"X_r", 348>>}

\* C4: the statements that have completed are the first ones of the
\* notebook, in its order and each once; a fit has completed only after the
\* statements that load and transform its data, a prediction, metric,
\* coefficient or topic line only after its fit; and a name that holds a
\* fitted model or a prediction is bound only when its fit has completed.
C4_LinearRun ==
    /\ Len(ran) <= Len(Program(nb))
    /\ \A i \in DOMAIN ran : ran[i] = Program(nb)[i]
    /\ Cardinality(Range(ran)) = Len(ran)
    /\ \A f \in {g \in Fits : g.nb = nb} :
          /\ Completed(f.fit) => \A l \in f.data : RanBefore(l, f.fit)
          /\ \A r \in f.reports : Completed(r) => RanBefore(f.fit, r)
    /\ \A f \in FittedNames : f[1] \in bound => Completed(f[2])

\* A notebook ran to its last statement.
C4_Witness ==
    /\ ran = Program(nb)
    /\ nb \in {"scaling", "topics", "kmeans"}
    /\ err = NoError

\* The statement of notebook n that loads its data.
LoadLine(n) == IF n = "topics" THEN 87 ELSE IF n = "scaling" THEN 39 ELSE 271

\* The position of statement l in notebook n.
ProgramPos(n, l) == CHOOSE i \in DOMAIN Program(n) : Program(n)[i] = l

\* The names the statements of notebook n before its load statement bind:
\* imports, constants, the clock reading.
BoundBeforeLoad(n) ==
    UNION {Binds(n, Program(n)[i]) : i \in 1..ProgramPos(n, LoadLine(n)) - 1}

\* The names of the tables, folds, models and predictions of the notebooks.
DataNames ==
    {"df", "X", "y", "X_train", "X_test", "y_train", "y_test", "lr", "linear", "y_pred",
     "ss", "X_train_ss", "dataset", "data_samples", "tfidf_vectorizer", "tfidf", "nmf",
     "tfidf_feature_names", "df2", "df3", "cluster_labels", "kdf", "iris", "pca", "X_r"}

\* C5: when the data cannot be loaded, the load statement never completes
\* and neither does any statement after it; once the load has been tried the
\* run has ended there with the library's own exception, no name of a
\* table, fold, model or prediction is bound, and nothing but the line
\* printed before the load has been printed.
C5_LoadFailureEndsRun ==
    files.state # "ok" =>
        /\ \A i \in DOMAIN ran : ProgramPos(nb, ran[i]) < ProgramPos(nb, LoadLine(nb))
        /\ pc <= ProgramPos(nb, LoadLine(nb))
        /\ err # NoError =>
              /\ err.line = LoadLine(nb)
              /\ err.type = IF nb = "topics" THEN "URLError" ELSE ReadCsvError(files.state)
        /\ bound \subseteq BoundBeforeLoad(nb)
        /\ bound \cap DataNames = {}
        /\ out = IF nb = "topics" /\ Completed(85)
                 THEN <<[text |-> "Loading dataset..."]>> ELSE <<>>

\* A load failed: the run stands at the load statement with its exception.
C5_Witness ==
    /\ files.state # "ok"
    /\ err # NoError
    /\ err.line = LoadLine(nb)
    /\ pc = ProgramPos(nb, LoadLine(nb))

=============================================================================
